---------------------------- MODULE Spec2Model ----------------------------
(***************************************************************************)
(* Scenario converter: the script parser (scenario_analyzer.py) and the    *)
(* table projector (datatable_generator.py).                               *)
(*                                                                         *)
(* A Python str is modelled as a sequence of characters, each character a  *)
(* one-element TLA+ string.  The non-ASCII characters of the scripts are   *)
(* written "LB" (the opening bracket of a scene header), "RB" (its closing *)
(* bracket), "FC" (the full-width colon) and "AR" (the arrow of a choice); *)
(* ":" is the half-width colon, " " the space and "\n" the newline.        *)
(* An Optional[str] is the record [some, val]; None is [some |-> FALSE].   *)
(***************************************************************************)
EXTENDS Integers, Sequences, FiniteSets, TLC

VARIABLES
    scenario,           \* the ScenarioStructure handed to the projector
    dialogue_counter,   \* DataTableGenerator.dialogue_counter
    choice_counter,     \* DataTableGenerator.choice_counter
    scene_counter,      \* DataTableGenerator.scene_counter
    character_counter,  \* DataTableGenerator.character_counter
    used,               \* the current generator has served a call
    results,            \* the results of the generate_all_tables calls so far
    scenario_text,      \* the input text of analyze_scenario
    pc,                 \* position of analyze_scenario
    ai_outcome,         \* what the enrichment call did
    basic_structure,    \* the value _extract_basic_structure_with_ai returned
    characters,         \* the roster _extract_characters returned
    diagram             \* the cells of the last generate_flowchart document

vars == <<scenario, dialogue_counter, choice_counter, scene_counter,
          character_counter, used, results, scenario_text, pc, ai_outcome,
          basic_structure, characters, diagram>>

genVars == <<dialogue_counter, choice_counter, scene_counter,
             character_counter, used, results>>

parseVars == <<scenario_text, pc, ai_outcome, basic_structure, characters>>

flowVars == <<diagram>>

-----------------------------------------------------------------------------
(* Bounds of the model *)

MaxScenes == 2

MaxDialogues == 2

MaxChoices == 2

MaxCalls == 2

MaxLines == 3

-----------------------------------------------------------------------------
(* Strings *)

EmptyStr == <<>>

None == [some |-> FALSE, val |-> <<>>]

Some(s) == [some |-> TRUE, val |-> s]

\* Python truthiness of an Optional[str]: None and "" are falsy.
Truthy(o) == o.some /\ o.val # <<>>

DigitChars == <<"0", "1", "2", "3", "4", "5", "6", "7", "8", "9">>

RECURSIVE Decimal(_)
Decimal(n) ==
    IF n < 10 THEN <<DigitChars[n + 1]>>
    ELSE Decimal(n \div 10) \o <<DigitChars[(n % 10) + 1]>>

\* f"{n:04d}": the decimal digits, zero-padded on the left to width 4.
Format04d(n) ==
    LET d == Decimal(n)
    IN  IF Len(d) >= 4 THEN d ELSE [i \in 1..(4 - Len(d)) |-> "0"] \o d

DialogueId(n) == <<"D", "L", "G", "_">> \o Format04d(n)

ChoiceId(n) == <<"C", "H", "C", "_">> \o Format04d(n)

CharacterId(n) == <<"C", "H", "A", "R", "_">> \o Format04d(n)

\* A variant of SceneId that numbers the scenes from 0: f"scene_{i}".
SceneIdFromZero(i) == <<"s", "c", "e", "n", "e", "_">> \o Decimal(i)

\* f"scene_{i+1}" for the 0-based index i of a header match.
SceneId(i) == <<"s", "c", "e", "n", "e", "_">> \o Decimal(i + 1)

-----------------------------------------------------------------------------
(* Entity model: scenario_analyzer.py, the dataclasses *)

Character(name, description) == [name |-> name, description |-> description]

DialogueLine(character, text) ==
    [character |-> character, text |-> text, emotion |-> None]

Choice(text, target_scene) == [text |-> text, target_scene |-> target_scene]

Scene(id, title, description, dialogues, choices, next_scene) ==
    [id |-> id, title |-> title, description |-> description,
     dialogues |-> dialogues, choices |-> choices, next_scene |-> next_scene]

ScenarioStructure(title, chars, scenes) ==
    [title |-> title, characters |-> chars, scenes |-> scenes]

-----------------------------------------------------------------------------
(* DataTableGenerator: datatable_generator.py *)

\* A dict as the sequence of its insertions; a later insertion of a key
\* replaces the earlier value, and get(key, default) reads the last one.
DictGet(d, key, default) ==
    LET hits == {k \in 1..Len(d) : d[k].key = key}
    IN  IF hits = {} THEN default
        ELSE d[CHOOSE k \in hits : \A j \in hits : j <= k].value

\* The entries one scene adds to dialogue_id_map; i is the 0-based index
\* of enumerate, c the local dialogue_counter when the scene starts.
SceneIdMapEntries(scene, c) ==
    [j \in 1..Len(scene.dialogues) |->
        [key |-> <<scene.id, j - 1>>, value |-> DialogueId(c + j - 1)]]

RECURSIVE IdMapFrom(_, _, _)
IdMapFrom(scenes, k, c) ==
    IF k > Len(scenes) THEN <<>>
    ELSE SceneIdMapEntries(scenes[k], c)
         \o IdMapFrom(scenes, k + 1, c + Len(scenes[k].dialogues))

\* _create_dialogue_id_map: its own dialogue_counter starts at 1.
CreateDialogueIdMap(scen) == IdMapFrom(scen.scenes, 1, 1)

\* A variant of NextDialogueId that links the last dialogue of a scene too
\* (i + 1 <= n for i + 1 < n).
NextDialogueIdPastEnd(i, n, c) ==
    IF i + 1 <= n THEN DialogueId(c + 1) ELSE EmptyStr

\* next_dialogue_id of the dialogue with 0-based index i among n, when the
\* generator's dialogue_counter is c.
NextDialogueId(i, n, c) == IF i + 1 < n THEN DialogueId(c + 1) ELSE EmptyStr

\* A variant of DialogueHasChoices without the test for the last dialogue.
DialogueHasChoicesAnywhere(scene, i) == Len(scene.choices) > 0

DialogueHasChoices(scene, i) ==
    Len(scene.choices) > 0 /\ i = Len(scene.dialogues) - 1

DialogueChoiceCount(scene, i) ==
    IF i = Len(scene.dialogues) - 1 THEN Len(scene.choices) ELSE 0

\* Variant: the emotion as stored, without the default.
EmotionTagAsStored(dialogue) == dialogue.emotion.val

EmotionTag(dialogue) ==
    IF Truthy(dialogue.emotion) THEN dialogue.emotion.val
    ELSE <<"N", "o", "r", "m", "a", "l">>

\* The rows of one scene; dialogue_counter is c when the scene starts and
\* grows by one per row.
SceneDialogueRows(scene, c) ==
    [j \in 1..Len(scene.dialogues) |->
        [ID |-> DialogueId(c + j - 1),
         SceneID |-> scene.id,
         SceneName |-> scene.title,
         CharacterName |-> scene.dialogues[j].character,
         DialogueText |-> scene.dialogues[j].text,
         EmotionTag |-> EmotionTag(scene.dialogues[j]),
         NextDialogueID |->
             NextDialogueId(j - 1, Len(scene.dialogues), c + j - 1),
         HasChoices |-> DialogueHasChoices(scene, j - 1),
         ChoiceCount |-> DialogueChoiceCount(scene, j - 1)]]

\* Variant: every scene is numbered from the counter the call started with.
RECURSIVE DialogueRowsFromRestart(_, _, _)
DialogueRowsFromRestart(scenes, k, c) ==
    IF k > Len(scenes) THEN <<>>
    ELSE SceneDialogueRows(scenes[k], c)
         \o DialogueRowsFromRestart(scenes, k + 1, c)

RECURSIVE DialogueRowsFrom(_, _, _)
DialogueRowsFrom(scenes, k, c) ==
    IF k > Len(scenes) THEN <<>>
    ELSE SceneDialogueRows(scenes[k], c)
         \o DialogueRowsFrom(scenes, k + 1, c + Len(scenes[k].dialogues))

\* _generate_dialogue_table, started with self.dialogue_counter = c.
GenerateDialogueTable(scen, c) == DialogueRowsFrom(scen.scenes, 1, c)

\* A variant of FindSceneByTitle that takes the last scene with that title.
FindLastSceneByTitle(scenes, name) ==
    LET hits == {k \in 1..Len(scenes) : scenes[k].title = name}
    IN  IF hits = {} THEN 0 ELSE CHOOSE k \in hits : \A j \in hits : j <= k

\* next((s for s in scenario.scenes if s.title == name), None): the index
\* of the first scene with that title, 0 when there is none.
FindSceneByTitle(scenes, name) ==
    LET hits == {k \in 1..Len(scenes) : scenes[k].title = name}
    IN  IF hits = {} THEN 0 ELSE CHOOSE k \in hits : \A j \in hits : k <= j

TargetSceneId(scenes, choice) ==
    LET k == FindSceneByTitle(scenes, choice.target_scene)
    IN  IF k = 0 THEN EmptyStr ELSE scenes[k].id

\* Variant: an unmatched target leaves the name empty, like the id.
TargetSceneNameOfMatch(scenes, choice) ==
    LET k == FindSceneByTitle(scenes, choice.target_scene)
    IN  IF k = 0 THEN EmptyStr ELSE scenes[k].title

TargetSceneName(scenes, choice) ==
    LET k == FindSceneByTitle(scenes, choice.target_scene)
    IN  IF k = 0 THEN choice.target_scene ELSE scenes[k].title

\* last_dialogue_id of a scene that has choices.
LastDialogueId(dialogue_id_map, scene) ==
    DictGet(dialogue_id_map, <<scene.id, Len(scene.dialogues) - 1>>, EmptyStr)

SceneChoiceRows(scen, dialogue_id_map, scene, c) ==
    [j \in 1..Len(scene.choices) |->
        [ID |-> ChoiceId(c + j - 1),
         DialogueID |-> LastDialogueId(dialogue_id_map, scene),
         ChoiceText |-> scene.choices[j].text,
         TargetSceneID |-> TargetSceneId(scen.scenes, scene.choices[j]),
         TargetSceneName |-> TargetSceneName(scen.scenes, scene.choices[j]),
         ChoiceIndex |-> j]]

RECURSIVE ChoiceRowsFrom(_, _, _, _)
ChoiceRowsFrom(scen, dialogue_id_map, k, c) ==
    IF k > Len(scen.scenes) THEN <<>>
    ELSE SceneChoiceRows(scen, dialogue_id_map, scen.scenes[k], c)
         \o ChoiceRowsFrom(scen, dialogue_id_map, k + 1,
                           c + Len(scen.scenes[k].choices))

\* _generate_choice_table, started with self.choice_counter = c.
GenerateChoiceTable(scen, c) ==
    ChoiceRowsFrom(scen, CreateDialogueIdMap(scen), 1, c)

FirstDialogueId(dialogue_id_map, scene) ==
    DictGet(dialogue_id_map, <<scene.id, 0>>, EmptyStr)

\* A variant of IsEndScene that does not look at next_scene.
IsEndSceneByChoices(scene) == Len(scene.choices) = 0

IsEndScene(scene) == Len(scene.choices) = 0 /\ ~Truthy(scene.next_scene)

SceneHasChoices(scene) == Len(scene.choices) > 0

\* _generate_scene_table
SceneRows(scen, dialogue_id_map) ==
    [k \in 1..Len(scen.scenes) |->
        [ID |-> scen.scenes[k].id,
         SceneName |-> scen.scenes[k].title,
         Description |-> scen.scenes[k].description,
         FirstDialogueID |-> FirstDialogueId(dialogue_id_map, scen.scenes[k]),
         DialogueCount |-> Len(scen.scenes[k].dialogues),
         HasChoices |-> SceneHasChoices(scen.scenes[k]),
         IsEndScene |-> IsEndScene(scen.scenes[k])]]

GenerateSceneTable(scen) == SceneRows(scen, CreateDialogueIdMap(scen))

RECURSIVE SumLen(_, _)
SumLen(scenes, field) ==
    IF scenes = <<>> THEN 0
    ELSE Len(Head(scenes)[field]) + SumLen(Tail(scenes), field)

\* character_dialogue_count.get(name, 0)
CharacterDialogueCount(scen, name) ==
    LET count(scene) ==
            Cardinality({j \in 1..Len(scene.dialogues) :
                            scene.dialogues[j].character = name})
        RECURSIVE total(_)
        total(k) == IF k > Len(scen.scenes) THEN 0
                    ELSE count(scen.scenes[k]) + total(k + 1)
    IN  total(1)

\* _generate_character_table, started with self.character_counter = c.
GenerateCharacterTable(scen, c) ==
    [k \in 1..Len(scen.characters) |->
        [ID |-> CharacterId(c + k - 1),
         CharacterName |-> scen.characters[k].name,
         Description |-> scen.characters[k].description,
         DialogueCount |->
             CharacterDialogueCount(scen, scen.characters[k].name)]]

\* The dict generate_all_tables returns, from the counters dc, cc, chc.
AllTables(scen, dc, cc, chc) ==
    [DialogueTable |-> GenerateDialogueTable(scen, dc),
     ChoiceTable |-> GenerateChoiceTable(scen, cc),
     SceneTable |-> GenerateSceneTable(scen),
     CharacterTable |-> GenerateCharacterTable(scen, chc)]

-----------------------------------------------------------------------------
(* Python str and re, on sequences of characters.  A position p in 0..Len(t)
   lies after the first p characters of t. *)

\* \s, on the characters of the scripts
IsSpace(c) == c \in {" ", "\n"}

\* ^ under re.MULTILINE
AtLineStart(t, p) == p = 0 \/ t[p] = "\n"

\* $ under re.MULTILINE
AtLineEnd(t, p) == p = Len(t) \/ t[p + 1] = "\n"

\* The length of the longest run of \s that starts at position p.
RECURSIVE SpaceRun(_, _)
SpaceRun(t, p) ==
    IF p < Len(t) /\ IsSpace(t[p + 1]) THEN 1 + SpaceRun(t, p + 1) ELSE 0

\* The first position at or after p where $ matches.
RECURSIVE LineEndFrom(_, _)
LineEndFrom(t, p) == IF AtLineEnd(t, p) THEN p ELSE LineEndFrom(t, p + 1)

Min(S) == CHOOSE x \in S : \A y \in S : x <= y

Max(S) == CHOOSE x \in S : \A y \in S : y <= x

\* str.strip()
Strip(t) ==
    LET keep == {i \in 1..Len(t) : ~IsSpace(t[i])}
    IN  IF keep = {} THEN <<>> ELSE SubSeq(t, Min(keep), Max(keep))

\* t[p:].startswith(sub)
StartsWithAt(t, p, sub) ==
    /\ p + Len(sub) <= Len(t)
    /\ \A i \in 1..Len(sub) : t[p + i] = sub[i]

\* str.replace(sub, ""), for a non-empty sub: every occurrence, found from
\* left to right without overlap, is removed.
RECURSIVE RemoveFrom(_, _, _)
RemoveFrom(t, p, sub) ==
    IF p >= Len(t) THEN <<>>
    ELSE IF StartsWithAt(t, p, sub) THEN RemoveFrom(t, p + Len(sub), sub)
    ELSE <<t[p + 1]>> \o RemoveFrom(t, p + 1, sub)

Remove(t, sub) == RemoveFrom(t, 0, sub)

\* " ".join(t.split()): the runs of \s become one space, none at the ends.
RECURSIVE JoinSplitFrom(_, _)
JoinSplitFrom(t, p) ==
    IF p >= Len(t) THEN <<>>
    ELSE IF IsSpace(t[p + 1])
         THEN LET q == p + SpaceRun(t, p)
              IN  IF q >= Len(t) THEN <<>>
                  ELSE <<" ">> \o JoinSplitFrom(t, q)
         ELSE <<t[p + 1]>> \o JoinSplitFrom(t, p + 1)

JoinSplit(t) == JoinSplitFrom(Strip(t), 0)

NoMatch == [found |-> FALSE, start |-> 0, end |-> 0, groups |-> <<>>]

Match(start, end, groups) ==
    [found |-> TRUE, start |-> start, end |-> end, groups |-> groups]

\* match.group(0)
Group0(t, m) == SubSeq(t, m.start + 1, m.end)

\* scene_pattern = ^\s*LB(.+?)RB\s*$ tried at position s.  The leading \s*
\* takes the whole run (a shorter one is followed by a \s, not by LB); the
\* lazy group ends at the first RB after which \s*$ can match; the trailing
\* \s* takes the longest run that ends where $ matches.
SceneMatchAt(t, s) ==
    LET a == s + SpaceRun(t, s)
        closes(e) ==
            /\ t[e] = "RB"
            /\ \A q \in (a + 2)..(e - 1) : t[q] # "\n"
            /\ \E k \in 0..SpaceRun(t, e) : AtLineEnd(t, e + k)
        closers == {e \in (a + 3)..Len(t) : closes(e)}
    IN  IF ~AtLineStart(t, s) \/ a >= Len(t) THEN NoMatch
        ELSE IF t[a + 1] # "LB" \/ closers = {} THEN NoMatch
        ELSE LET e == Min(closers)
                 k == Max({j \in 0..SpaceRun(t, e) : AtLineEnd(t, e + j)})
             IN  Match(s, e + k, <<SubSeq(t, a + 2, e - 1)>>)

\* A variant of IsColon that knows the half-width colon only.
IsColonHalfWidth(c) == c = ":"

\* [FC:] of character_pattern
IsColon(c) == c \in {"FC", ":"}

\* The length of the longest run of [^FC:\n] that starts at position p.
RECURSIVE NameRun(_, _)
NameRun(t, p) ==
    IF p < Len(t) /\ ~IsColon(t[p + 1]) /\ t[p + 1] # "\n"
    THEN 1 + NameRun(t, p + 1) ELSE 0

\* character_pattern = ^([^FC:\n]+)[FC:](.+)$ tried at position s: the
\* first group is the whole run (only then a colon can follow), the second
\* the rest of the line, at least one character.
CharacterMatchAt(t, s) ==
    LET n == NameRun(t, s)
        c == s + n + 1
    IN  IF ~AtLineStart(t, s) \/ n = 0 \/ c > Len(t) THEN NoMatch
        ELSE IF ~IsColon(t[c]) \/ AtLineEnd(t, c) THEN NoMatch
        ELSE LET e == LineEndFrom(t, c)
             IN  Match(s, e, <<SubSeq(t, s + 1, s + n), SubSeq(t, c + 1, e)>>)

\* (?:\s*AR\s*(.+?))?$ of choice_pattern, the group taken, tried at
\* position p: the first \s* takes the whole run, the second the longest
\* run after which one character of the line is left for (.+?), which
\* then runs to the first $.
ArrowGroupAt(t, p) ==
    LET c == p + SpaceRun(t, p)
        d == c + 1
        left(k) == d + k < Len(t) /\ t[d + k + 1] # "\n"
        ks == {k \in 0..SpaceRun(t, d) : left(k)}
    IN  IF c >= Len(t) THEN NoMatch
        ELSE IF t[c + 1] # "AR" \/ ks = {} THEN NoMatch
        ELSE LET g == d + Max(ks)
                 e == LineEndFrom(t, g + 1)
             IN  Match(p, e, <<SubSeq(t, g + 1, e)>>)

\* (.+?)(?:\s*AR\s*(.+?))?$ of choice_pattern tried at position q: the
\* lazy group grows one character at a time and stops at the first length
\* at which the optional group, or else $, matches.
ChoiceRestAt(t, q) ==
    LET ok(n) ==
            /\ \A x \in (q + 1)..(q + n) : t[x] # "\n"
            /\ (ArrowGroupAt(t, q + n).found \/ AtLineEnd(t, q + n))
        ns == {n \in 1..(Len(t) - q) : ok(n)}
        with(n, arrow) ==
            IF arrow.found
            THEN Match(q, arrow.end,
                       <<SubSeq(t, q + 1, q + n), arrow.groups[1]>>)
            ELSE Match(q, q + n, <<SubSeq(t, q + 1, q + n), <<>>>>)
        stop(n) == with(n, ArrowGroupAt(t, q + n))
    IN  IF ns = {} THEN NoMatch ELSE stop(Min(ns))

\* choice_pattern = ^\s*([1-9])\.\s*(.+?)(?:\s*AR\s*(.+?))?$ tried at
\* position s: the \s* after the period takes the longest run from which
\* the rest can match.
ChoiceMatchAt(t, s) ==
    LET a == s + SpaceRun(t, s)
        b == a + 2
        ks == {k \in 0..SpaceRun(t, b) : ChoiceRestAt(t, b + k).found}
    IN  IF ~AtLineStart(t, s) \/ b > Len(t) THEN NoMatch
        ELSE IF t[a + 1] \notin {"1", "2", "3", "4", "5", "6", "7", "8", "9"}
                \/ t[b] # "." \/ ks = {}
        THEN NoMatch
        ELSE LET with(rest) ==
                     Match(s, rest.end, <<<<t[a + 1]>>>> \o rest.groups)
             IN  with(ChoiceRestAt(t, b + Max(ks)))

\* The first position after p where ^ matches, Len(t) + 1 when there is
\* none.
NextLineStart(t, p) == LineEndFrom(t, p) + 1

\* pattern.finditer(t): the matches from left to right; the search goes on
\* where the last match ended (no pattern here matches the empty string).
\* Every pattern begins with ^, so that where none matches the search goes
\* on at the next position where ^ matches.
RECURSIVE SceneFinditer(_, _)
SceneFinditer(t, pos) ==
    IF pos > Len(t) THEN <<>>
    ELSE LET next(m) == IF m.found THEN <<m>> \o SceneFinditer(t, m.end)
                         ELSE SceneFinditer(t, NextLineStart(t, pos))
         IN  next(SceneMatchAt(t, pos))

RECURSIVE CharacterFinditer(_, _)
CharacterFinditer(t, pos) ==
    IF pos > Len(t) THEN <<>>
    ELSE LET next(m) == IF m.found THEN <<m>> \o CharacterFinditer(t, m.end)
                         ELSE CharacterFinditer(t, NextLineStart(t, pos))
         IN  next(CharacterMatchAt(t, pos))

RECURSIVE ChoiceFinditer(_, _)
ChoiceFinditer(t, pos) ==
    IF pos > Len(t) THEN <<>>
    ELSE LET next(m) == IF m.found THEN <<m>> \o ChoiceFinditer(t, m.end)
                         ELSE ChoiceFinditer(t, NextLineStart(t, pos))
         IN  next(ChoiceMatchAt(t, pos))

-----------------------------------------------------------------------------
(* ScenarioAnalyzer: scenario_analyzer.py *)

\* description_text after replace(match.group(0), "") for each match.
RECURSIVE RemoveMatches(_, _, _)
RemoveMatches(description_text, content, matches) ==
    IF matches = <<>> THEN description_text
    ELSE RemoveMatches(Remove(description_text, Group0(content, Head(matches))),
                       content, Tail(matches))

\* _parse_scene_content
ParseSceneContent(scene_id, scene_title, content) ==
    LET dialogue(match) ==
            DialogueLine(Strip(match.groups[1]), Strip(match.groups[2]))
        choice(match) ==
            Choice(Strip(match.groups[2]),
                   IF match.groups[3] # <<>> THEN Strip(match.groups[3])
                   ELSE EmptyStr)
        with(dialogue_matches, choice_matches) ==
            Scene(scene_id, scene_title,
                  JoinSplit(RemoveMatches(
                      RemoveMatches(content, content, dialogue_matches),
                      content, choice_matches)),
                  [j \in 1..Len(dialogue_matches) |->
                      dialogue(dialogue_matches[j])],
                  [j \in 1..Len(choice_matches) |-> choice(choice_matches[j])],
                  None)
    IN  with(CharacterFinditer(content, 0), ChoiceFinditer(content, 0))

\* The id and the title of the scene that stands for a text without scene
\* headers: "main" and the six-character title the source gives it, its
\* characters written by their readings.
MainSceneId == <<"m", "a", "i", "n">>

MainSceneTitle == <<"me", "i", "n", "shi", "-", "n">>

\* _extract_scenes
ExtractScenes(text) ==
    LET with(scene_matches) ==
            IF scene_matches = <<>>
            THEN <<ParseSceneContent(MainSceneId, MainSceneTitle, text)>>
            ELSE [i \in 1..Len(scene_matches) |->
                     ParseSceneContent(
                         SceneId(i - 1), scene_matches[i].groups[1],
                         Strip(SubSeq(text, scene_matches[i].end + 1,
                                      IF i < Len(scene_matches)
                                      THEN scene_matches[i + 1].start
                                      ELSE Len(text))))]
    IN  with(SceneFinditer(text, 0))

\* 'Untitled Scenario'
UntitledScenario ==
    <<"U", "n", "t", "i", "t", "l", "e", "d", " ",
      "S", "c", "e", "n", "a", "r", "i", "o">>

\* What the enrichment call can come to.  response is "exception" (the
\* request failed or timed out), "non_json" (json.loads raised) or "json",
\* and then value is the decoded JSON value: kind is "object" or, for any
\* other JSON value, "other"; title is the value under 'title'; characters
\* the value under 'characters': kind "absent", "array" (items: its
\* entries), "string" (items: its characters) or "other" (null, a number).
\* An entry is a dict (name and description under their keys, when
\* present), a str (name) or any other value.
JsonObject(title, chars) ==
    [kind |-> "object", title |-> title, characters |-> chars]

JsonOther == [kind |-> "other", title |-> None,
              characters |-> [kind |-> "absent", items |-> <<>>]]

JsonArray(items) == [kind |-> "array", items |-> items]

JsonAbsent == [kind |-> "absent", items |-> <<>>]

DictEntry(name, description) ==
    [kind |-> "dict", name |-> name, description |-> description]

StrEntry(name) == [kind |-> "str", name |-> Some(name), description |-> None]

OtherEntry == [kind |-> "other", name |-> None, description |-> None]

\* The dict the except branch of _extract_basic_structure_with_ai returns.
FallbackStructure == JsonObject(Some(UntitledScenario), JsonArray(<<>>))

\* _extract_basic_structure_with_ai
ExtractBasicStructureWithAi(outcome) ==
    IF outcome.response = "json" THEN outcome.value ELSE FallbackStructure

\* The Character one entry of ai_characters adds, if any.
AiCharacter(char_info) ==
    IF char_info.kind = "dict"
    THEN <<Character(IF char_info.name.some THEN char_info.name.val
                     ELSE EmptyStr,
                     IF char_info.description.some
                     THEN char_info.description.val ELSE EmptyStr)>>
    ELSE IF char_info.kind = "str"
    THEN <<Character(char_info.name.val, EmptyStr)>>
    ELSE <<>>

RECURSIVE AiCharacters(_)
AiCharacters(items) ==
    IF items = <<>> THEN <<>>
    ELSE AiCharacter(Head(items)) \o AiCharacters(Tail(items))

\* The loop over dialogue_matches of _extract_characters.
RECURSIVE AddMatchedNames(_, _, _)
AddMatchedNames(roster, text, matches) ==
    IF matches = <<>> THEN roster
    ELSE LET char_name == Strip(Head(matches).groups[1])
         IN  AddMatchedNames(
                 IF char_name # EmptyStr
                    /\ ~\E k \in 1..Len(roster) : roster[k].name = char_name
                 THEN Append(roster, Character(char_name, EmptyStr))
                 ELSE roster,
                 text, Tail(matches))

\* _extract_characters raises when basic_structure has no get (it is not a
\* dict) or the value under 'characters' cannot be iterated.
ExtractCharactersRaises(structure) ==
    \/ structure.kind # "object"
    \/ structure.characters.kind = "other"

\* _extract_characters, when it returns.
ExtractCharacters(text, structure) ==
    AddMatchedNames(AiCharacters(structure.characters.items), text,
                    CharacterFinditer(text, 0))

\* basic_structure.get('title', 'Untitled Scenario')
ExtractTitle(structure) ==
    IF structure.title.some THEN structure.title.val
    ELSE UntitledScenario

-----------------------------------------------------------------------------
(* FlowchartGenerator: flowchart_generator.py.  The document is the sequence
   of its mxCell elements in the order they are added to root; an attribute
   an element does not carry is the empty string. *)

node_width == 120

node_height == 60

choice_width == 100

choice_height == 40

spacing_x == 200

spacing_y == 150

start_x == 100

start_y == 100

\* The distance between a choice node's id and the id of the edge that
\* leads to it: id=str(cell_id + 1000).
EdgeIdOffset == 1000

\* The number of dialogues a scene label shows.
LabelDialogues == 2

\* The number of characters of a dialogue text a scene label shows.
LabelTextChars == 30

NoGeometry == [x |-> 0, y |-> 0, width |-> 0, height |-> 0, relative |-> FALSE]

DefaultCells ==
    <<[id |-> <<"0">>, parent |-> EmptyStr, value |-> EmptyStr,
       style |-> "", vertex |-> FALSE, edge |-> FALSE, source |-> EmptyStr,
       target |-> EmptyStr, geometry |-> NoGeometry],
      [id |-> <<"1">>, parent |-> <<"0">>, value |-> EmptyStr,
       style |-> "", vertex |-> FALSE, edge |-> FALSE, source |-> EmptyStr,
       target |-> EmptyStr, geometry |-> NoGeometry]>>

\* A vertex cell; style is "scene" for the rounded box of a scene and
\* "choice" for the rhombus of a choice.
VertexCell(cell_id, value, style, x, y, width, height) ==
    [id |-> Decimal(cell_id), parent |-> <<"1">>, value |-> value,
     style |-> style, vertex |-> TRUE, edge |-> FALSE, source |-> EmptyStr,
     target |-> EmptyStr,
     geometry |-> [x |-> x, y |-> y, width |-> width, height |-> height,
                   relative |-> FALSE]]

\* _create_edge, and the edge cell of the first loop, which has the same
\* attributes.
CreateEdge(edge_id, source_id, target_id, label) ==
    [id |-> Decimal(edge_id), parent |-> <<"1">>, value |-> label,
     style |-> "edge", vertex |-> FALSE, edge |-> TRUE,
     source |-> Decimal(source_id), target |-> Decimal(target_id),
     geometry |-> [x |-> 0, y |-> 0, width |-> 0, height |-> 0,
                   relative |-> TRUE]]

\* _calculate_positions, as the dict of its insertions.
CalculatePositions(scenes) ==
    [k \in 1..Len(scenes) |->
        [key |-> scenes[k].id,
         value |-> <<start_x,
                     start_y + (k - 1) * (node_height + spacing_y)>>]]

\* f"{dialogue.character}: {dialogue.text[:30]}...<br/>"
FormatDialogue(dialogue) ==
    dialogue.character \o <<":", " ">>
    \o SubSeq(dialogue.text, 1, Min({LabelTextChars, Len(dialogue.text)}))
    \o <<".", ".", ".", "<", "b", "r", "/", ">">>

RECURSIVE FormatDialogues(_)
FormatDialogues(dialogues) ==
    IF dialogues = <<>> THEN <<>>
    ELSE FormatDialogue(Head(dialogues)) \o FormatDialogues(Tail(dialogues))

\* _format_scene_text
FormatSceneText(scene) ==
    <<"<", "b", ">">> \o scene.title
    \o <<"<", "/", "b", ">", "<", "b", "r", "/", ">">>
    \o FormatDialogues(SubSeq(scene.dialogues, 1,
                              Min({LabelDialogues, Len(scene.dialogues)})))
    \o (IF Len(scene.dialogues) > LabelDialogues
        THEN <<".", ".", ".", " ", "(", "+">>
             \o Decimal(Len(scene.dialogues) - LabelDialogues)
             \o <<" ", "m", "o", "r", "e", ")">>
        ELSE <<>>)

\* choice_x for the choice with 0-based index j among n, below a scene at
\* x: x + (j - n/2 + 0.5) * spacing_x, a whole number as spacing_x is even.
ChoiceX(x, j, n) ==
    x + j * spacing_x - (n * spacing_x) \div 2 + spacing_x \div 2

\* The cells the first loop adds for one scene when cell_id is c: the scene
\* node with id c, then for the choice with 0-based index j its node with
\* id c + 1 + j and the edge to it from the scene node.
SceneCells(scene, c, pos) ==
    <<VertexCell(c, FormatSceneText(scene), "scene", pos[1], pos[2],
                 node_width, node_height)>>
    \o [m \in 1..(2 * Len(scene.choices)) |->
           IF m % 2 = 1
           THEN VertexCell(c + 1 + (m - 1) \div 2,
                           scene.choices[(m + 1) \div 2].text, "choice",
                           ChoiceX(pos[1], (m - 1) \div 2, Len(scene.choices)),
                           pos[2] + spacing_y, choice_width, choice_height)
           ELSE CreateEdge(c + m \div 2 + EdgeIdOffset, c, c + m \div 2,
                           EmptyStr)]

\* The first loop from scene k on, when cell_id is c.
RECURSIVE FirstLoopFrom(_, _, _, _)
FirstLoopFrom(scenes, node_positions, k, c) ==
    IF k > Len(scenes) THEN <<>>
    ELSE SceneCells(scenes[k], c,
                    DictGet(node_positions, scenes[k].id, <<0, 0>>))
         \o FirstLoopFrom(scenes, node_positions, k + 1,
                          c + 1 + Len(scenes[k].choices))

\* scene_to_id as the first loop fills it, from scene k on.
RECURSIVE SceneToIdFrom(_, _, _)
SceneToIdFrom(scenes, k, c) ==
    IF k > Len(scenes) THEN <<>>
    ELSE <<[key |-> scenes[k].id, value |-> c]>>
         \o SceneToIdFrom(scenes, k + 1, c + 1 + Len(scenes[k].choices))

\* cell_id when the first loop is over.
FirstLoopEnd(scenes) == 2 + Len(scenes) + SumLen(scenes, "choices")

\* The cell id scene_to_id gives for the first scene titled name.
TargetCellId(scenes, scene_to_id, name) ==
    DictGet(scene_to_id, scenes[FindSceneByTitle(scenes, name)].id, 0)

\* Variant: a choice without a target is looked up like any other.
ResolvedChoicesWithEmpty(scenes, scene) ==
    SelectSeq(scene.choices,
              LAMBDA choice : FindSceneByTitle(scenes, choice.target_scene)
                                  # 0)

\* The choices of a scene the second loop draws an edge for.
ResolvedChoices(scenes, scene) ==
    SelectSeq(scene.choices,
              LAMBDA choice : /\ choice.target_scene # EmptyStr
                              /\ FindSceneByTitle(scenes, choice.target_scene)
                                     # 0)

\* The edges the second loop adds for one scene when cell_id is c: the edge
\* to the scene next_scene names, then the labelled edges of the choices.
SceneEdges(scenes, scene_to_id, scene, c) ==
    LET with(source_id, successor, resolved) ==
            successor
            \o [j \in 1..Len(resolved) |->
                   CreateEdge(c + Len(successor) + j - 1, source_id,
                              TargetCellId(scenes, scene_to_id,
                                           resolved[j].target_scene),
                              resolved[j].text)]
    IN  with(DictGet(scene_to_id, scene.id, 0),
             IF /\ Truthy(scene.next_scene)
                /\ FindSceneByTitle(scenes, scene.next_scene.val) # 0
             THEN <<CreateEdge(c, DictGet(scene_to_id, scene.id, 0),
                               TargetCellId(scenes, scene_to_id,
                                            scene.next_scene.val),
                               EmptyStr)>>
             ELSE <<>>,
             ResolvedChoices(scenes, scene))

\* The second loop from scene k on, when cell_id is c.
RECURSIVE SecondLoopFrom(_, _, _, _)
SecondLoopFrom(scenes, scene_to_id, k, c) ==
    IF k > Len(scenes) THEN <<>>
    ELSE LET with(edges) ==
                 edges \o SecondLoopFrom(scenes, scene_to_id, k + 1,
                                         c + Len(edges))
         IN  with(SceneEdges(scenes, scene_to_id, scenes[k], c))

\* generate_flowchart: the cells of the document it returns.
GenerateFlowchart(scen) ==
    DefaultCells
    \o FirstLoopFrom(scen.scenes, CalculatePositions(scen.scenes), 1, 2)
    \o SecondLoopFrom(scen.scenes, SceneToIdFrom(scen.scenes, 1, 2), 1,
                      FirstLoopEnd(scen.scenes))

-----------------------------------------------------------------------------
(* The graphs handed to the projector *)

TitleA == <<"A">>

TitleB == <<"B">>

TitleC == <<"C">>

Titles == {TitleA, TitleB}

\* A choice's target: a title some scene may carry, a title no scene
\* carries, and the empty target of a choice without an arrow.
Targets == {TitleA, TitleC, EmptyStr}

NextScenes == {None, Some(EmptyStr), Some(TitleA)}

SpeakerAt(j) == IF j % 2 = 1 THEN <<"X">> ELSE <<"Y">>

DialoguesOf(n) == [j \in 1..n |-> DialogueLine(SpeakerAt(j), <<"h", "i">>)]

ChoicesOf(targets) ==
    [j \in 1..Len(targets) |-> Choice(<<"g", "o">>, targets[j])]

\* The scenes a graph is built from, before their ids are assigned: any
\* number of dialogues and choices with every choice aimed at title A, and
\* the scenes of one dialogue and at most one choice in which the title,
\* the choice's target or next_scene takes another value.
SceneShapes ==
    {Scene(EmptyStr, TitleA, EmptyStr, DialoguesOf(nd),
           ChoicesOf([j \in 1..nc |-> TitleA]), None) :
        nd \in 0..MaxDialogues, nc \in 0..MaxChoices}
    \cup
    {Scene(EmptyStr, t, EmptyStr, DialoguesOf(1),
           ChoicesOf([j \in 1..nc |-> TitleA]), None) :
        t \in Titles, nc \in {0, 1}}
    \cup
    {Scene(EmptyStr, TitleA, EmptyStr, DialoguesOf(1), ChoicesOf(<<g>>),
           None) : g \in Targets}
    \cup
    {Scene(EmptyStr, TitleA, EmptyStr, DialoguesOf(1),
           ChoicesOf([j \in 1..nc |-> TitleA]), nx) :
        nx \in NextScenes, nc \in {0, 1}}

\* The roster of a graph: its speakers in first-seen order.
RECURSIVE AddSpeakers(_, _)
AddSpeakers(roster, dialogues) ==
    IF dialogues = <<>> THEN roster
    ELSE LET name == Head(dialogues).character
         IN  AddSpeakers(
                 IF \E k \in 1..Len(roster) : roster[k].name = name
                 THEN roster
                 ELSE Append(roster, Character(name, EmptyStr)),
                 Tail(dialogues))

RECURSIVE RosterOf(_, _)
RosterOf(roster, scenes) ==
    IF scenes = <<>> THEN roster
    ELSE RosterOf(AddSpeakers(roster, Head(scenes).dialogues), Tail(scenes))

\* The graph of the scenes shapes[1..n]; scene ids are unique: scene_1,
\* scene_2, ... in graph order.
GraphOf(shapes) ==
    LET scenes == [k \in 1..Len(shapes) |->
                      [shapes[k] EXCEPT !.id = SceneId(k - 1)]]
    IN  ScenarioStructure(UntitledScenario, RosterOf(<<>>, scenes), scenes)

-----------------------------------------------------------------------------
(* The generator instance and its calls *)

NoScenario == ScenarioStructure(EmptyStr, <<>>, <<>>)

\* DataTableGenerator.__init__
InitGenerator ==
    /\ dialogue_counter = 1
    /\ choice_counter = 1
    /\ scene_counter = 1
    /\ character_counter = 1
    /\ used = FALSE
    /\ results = <<>>
    /\ diagram = <<>>

NoOutcome == [response |-> "none", value |-> JsonOther]

ParserIdle ==
    /\ scenario_text = EmptyStr
    /\ pc = "idle"
    /\ ai_outcome = NoOutcome
    /\ basic_structure = JsonOther
    /\ characters = <<>>

Init ==
    /\ \E n \in 0..MaxScenes :
           \E shapes \in [1..n -> SceneShapes] : scenario = GraphOf(shapes)
    /\ InitGenerator
    /\ ParserIdle

\* A fresh DataTableGenerator replaces the one in use.
NewGenerator ==
    /\ used
    /\ Len(results) < MaxCalls
    /\ dialogue_counter' = 1
    /\ choice_counter' = 1
    /\ scene_counter' = 1
    /\ character_counter' = 1
    /\ used' = FALSE
    /\ UNCHANGED <<scenario, results>>
    /\ UNCHANGED parseVars
    /\ UNCHANGED flowVars

\* generator.generate_all_tables(scenario) on the generator in use.
GenerateAllTables ==
    /\ pc \in {"idle", "returned"}
    /\ Len(results) < MaxCalls
    /\ results' = Append(results,
           [fresh |-> ~used,
            tables |-> AllTables(scenario, dialogue_counter, choice_counter,
                                 character_counter)])
    /\ dialogue_counter' =
           dialogue_counter + SumLen(scenario.scenes, "dialogues")
    /\ choice_counter' = choice_counter + SumLen(scenario.scenes, "choices")
    /\ character_counter' = character_counter + Len(scenario.characters)
    /\ used' = TRUE
    /\ UNCHANGED <<scenario, scene_counter>>
    /\ UNCHANGED parseVars
    /\ UNCHANGED flowVars

Next == GenerateAllTables \/ NewGenerator

Spec == Init /\ [][Next]_vars

-----------------------------------------------------------------------------
(* analyze_scenario on a text, and the projection of what it returns *)

\* The lines the input texts are made of: scene headers (one with spaces
\* around it), dialogues with the full-width and the half-width colon, a
\* choice with a target, an empty line, a line of plain text and a header
\* followed by text, which is no header.
LinePool ==
    {<<"LB", "A", "RB">>,
     <<" ", "LB", "B", "RB", " ">>,
     <<"X", "FC", "h", "i">>,
     <<"Y", ":", "b", "y", "e">>,
     <<"1", ".", " ", "g", "o", " ", "AR", " ", "B">>,
     <<>>,
     <<"n", "o", "t", "e">>,
     <<"LB", "A", "RB", "x">>}

\* "\n".join(lines)
RECURSIVE JoinLines(_)
JoinLines(lines) ==
    IF lines = <<>> THEN <<>>
    ELSE IF Len(lines) = 1 THEN lines[1]
    ELSE lines[1] \o <<"\n">> \o JoinLines(Tail(lines))

\* The text of the example: LB A RB, X FC hi, 1. go AR B, an empty line,
\* LB B RB, Y FC bye.
ExampleText ==
    JoinLines(<<
        <<"LB", "A", "RB">>,
        <<"X", "FC", "h", "i">>,
        <<"1", ".", " ", "g", "o", " ", "AR", " ", "B">>,
        <<>>,
        <<"LB", "B", "RB">>,
        <<"Y", "FC", "b", "y", "e">> >>)

Hero == <<"h", "e", "r", "o">>

\* The outcomes of the enrichment call: a failed request, a reply that is
\* no JSON, and JSON replies: the empty object, an object with a title and
\* a roster that repeats a name, a roster with an entry without a name and
\* an entry that is a number, a roster of strings, a roster given as one
\* string under an empty title, null for the roster, and a JSON array.
AiOutcomes ==
    {[response |-> "exception", value |-> JsonOther],
     [response |-> "non_json", value |-> JsonOther],
     [response |-> "json", value |-> JsonObject(None, JsonAbsent)],
     [response |-> "json",
      value |-> JsonObject(Some(<<"T">>),
                    JsonArray(<<DictEntry(Some(<<"X">>), Some(Hero)),
                                DictEntry(Some(<<"X">>), Some(<<"o">>))>>))],
     [response |-> "json",
      value |-> JsonObject(None,
                    JsonArray(<<DictEntry(None, Some(Hero)), OtherEntry>>))],
     [response |-> "json",
      value |-> JsonObject(None,
                    JsonArray(<<StrEntry(<<"Z">>), StrEntry(<<"Y">>)>>))],
     [response |-> "json",
      value |-> JsonObject(Some(EmptyStr),
                    [kind |-> "string",
                     items |-> <<StrEntry(<<"X">>), StrEntry(<<"Z">>)>>])],
     [response |-> "json",
      value |-> JsonObject(None, [kind |-> "other", items |-> <<>>])],
     [response |-> "json", value |-> JsonOther]}

ParseInit ==
    /\ \/ \E n \in 0..MaxLines :
              \E lines \in [1..n -> LinePool] :
                  scenario_text = JoinLines(lines)
       \/ scenario_text = ExampleText
    /\ pc = "start"
    /\ ai_outcome = NoOutcome
    /\ basic_structure = JsonOther
    /\ characters = <<>>
    /\ scenario = NoScenario
    /\ InitGenerator

\* analyze_scenario, line 79: the enrichment call and what it returns.
EnrichmentCall ==
    /\ pc = "start"
    /\ \E outcome \in AiOutcomes :
           /\ ai_outcome' = outcome
           /\ basic_structure' = ExtractBasicStructureWithAi(outcome)
    /\ pc' = "enriched"
    /\ UNCHANGED <<scenario_text, characters, scenario>>
    /\ UNCHANGED genVars
    /\ UNCHANGED flowVars

\* analyze_scenario, line 82: the roster, or the exception that leaves
\* analyze_scenario.
ExtractCharactersStep ==
    /\ pc = "enriched"
    /\ IF ExtractCharactersRaises(basic_structure)
       THEN pc' = "raised" /\ UNCHANGED characters
       ELSE /\ pc' = "characters"
            /\ characters' = ExtractCharacters(scenario_text, basic_structure)
    /\ UNCHANGED <<scenario_text, ai_outcome, basic_structure, scenario>>
    /\ UNCHANGED genVars
    /\ UNCHANGED flowVars

\* analyze_scenario, lines 85 to 94: the scenes, the title, the return.
ExtractScenesStep ==
    /\ pc = "characters"
    /\ scenario' = ScenarioStructure(ExtractTitle(basic_structure),
                                     characters, ExtractScenes(scenario_text))
    /\ pc' = "returned"
    /\ UNCHANGED <<scenario_text, ai_outcome, basic_structure, characters>>
    /\ UNCHANGED genVars
    /\ UNCHANGED flowVars

ParseNext ==
    \/ EnrichmentCall
    \/ ExtractCharactersStep
    \/ ExtractScenesStep
    \/ GenerateAllTables

ParseSpec == ParseInit /\ [][ParseNext]_vars

-----------------------------------------------------------------------------
(* Reading a result *)

\* The DialogueTable rows of the scene with this id, in row order.
RowsOfScene(table, id) == SelectSeq(table, LAMBDA r : r.SceneID = id)

\* The ChoiceTable row of choice j (1-based) of scene k (1-based).
ChoiceRow(table, scenes, k, j) ==
    table[SumLen(SubSeq(scenes, 1, k - 1), "choices") + j]

SceneIndexes == 1..Len(scenario.scenes)

ResultIndexes == 1..Len(results)

\* Some call was served by a generator that had served a call before.
LaterCallMade == \E r \in ResultIndexes : ~results[r].fresh

-----------------------------------------------------------------------------
(* Claims on the table projector *)

\* C1 (as claimed): in the result of every generate_all_tables call, first
\* or later on the same generator, the identifier _create_dialogue_id_map
\* gives for (scene.id, i) is the ID of the DialogueTable row of dialogue i
\* of that scene; so every ChoiceTable row's DialogueID is the ID of the
\* row of its scene's last dialogue and every SceneTable row's
\* FirstDialogueID the ID of the row of its scene's first dialogue (empty
\* when the scene has no dialogues).
C1_IdentifierStability ==
    \A r \in ResultIndexes : \A k \in SceneIndexes :
        LET T == results[r].tables
            scene == scenario.scenes[k]
            n == Len(scene.dialogues)
            rows == RowsOfScene(T.DialogueTable, scene.id)
            lookup(i) ==
                DictGet(CreateDialogueIdMap(scenario), <<scene.id, i>>,
                        EmptyStr)
        IN  /\ Len(rows) = n
            /\ \A i \in 0..(n - 1) : lookup(i) = rows[i + 1].ID
            /\ \A j \in 1..Len(scene.choices) :
                   ChoiceRow(T.ChoiceTable, scenario.scenes, k, j).DialogueID
                       = IF n = 0 THEN EmptyStr ELSE rows[n].ID
            /\ T.SceneTable[k].FirstDialogueID
                   = IF n = 0 THEN EmptyStr ELSE rows[1].ID

\* C2 (as claimed): any two generate_all_tables calls on the same graph,
\* on fresh generators or one after the other on one generator, return
\* identical DialogueTable, ChoiceTable, SceneTable and CharacterTable.
C2_ProjectionDeterministic ==
    \A r1, r2 \in ResultIndexes : results[r1].tables = results[r2].tables

\* C4: every choice has its ChoiceTable row; the row's TargetSceneID is the
\* id of the first scene in graph order whose title equals the choice's
\* target_scene and TargetSceneName that scene's title; when no scene has
\* that title (an empty target included) TargetSceneID is empty and
\* TargetSceneName is the target_scene as given.
C4_TargetResolution ==
    \A r \in ResultIndexes :
        LET T == results[r].tables
            scenes == scenario.scenes
        IN  /\ Len(T.ChoiceTable) = SumLen(scenes, "choices")
            /\ \A k \in SceneIndexes : \A j \in 1..Len(scenes[k].choices) :
                   LET choice == scenes[k].choices[j]
                       row == ChoiceRow(T.ChoiceTable, scenes, k, j)
                       same == {m \in SceneIndexes :
                                   scenes[m].title = choice.target_scene}
                   IN  /\ row.ChoiceText = choice.text
                       /\ same = {} =>
                              /\ row.TargetSceneID = EmptyStr
                              /\ row.TargetSceneName = choice.target_scene
                       /\ \A m \in same :
                              (\A m2 \in same : m <= m2) =>
                                  /\ row.TargetSceneID = scenes[m].id
                                  /\ row.TargetSceneName = scenes[m].title

\* C4 witness: a result for a graph in which one choice names a title two
\* scenes carry and another a title no scene carries or no target at all.
C4_Witness ==
    /\ results # <<>>
    /\ \E k \in SceneIndexes : \E j \in 1..Len(scenario.scenes[k].choices) :
           Cardinality({m \in SceneIndexes :
               scenario.scenes[m].title
                   = scenario.scenes[k].choices[j].target_scene}) = 2
    /\ \E k \in SceneIndexes : \E j \in 1..Len(scenario.scenes[k].choices) :
           scenario.scenes[k].choices[j].target_scene \in {TitleC, EmptyStr}

\* C5: the DialogueTable row of a scene's final dialogue has HasChoices
\* exactly when the scene has a choice and ChoiceCount the scene's number
\* of choices; every earlier row of the scene has HasChoices false and
\* ChoiceCount 0.
C5_LastDialogueLinkage ==
    \A r \in ResultIndexes : \A k \in SceneIndexes :
        LET scene == scenario.scenes[k]
            n == Len(scene.dialogues)
            rows == RowsOfScene(results[r].tables.DialogueTable, scene.id)
        IN  /\ Len(rows) = n
            /\ n > 0 =>
                   /\ rows[n].HasChoices = (Len(scene.choices) >= 1)
                   /\ rows[n].ChoiceCount = Len(scene.choices)
            /\ \A i \in 1..(n - 1) :
                   /\ rows[i].HasChoices = FALSE
                   /\ rows[i].ChoiceCount = 0

\* C5 witness: a result for a graph with a scene of two or more dialogues
\* and a choice, and a scene with dialogues and no choice.
C5_Witness ==
    /\ results # <<>>
    /\ \E k \in SceneIndexes :
           /\ Len(scenario.scenes[k].dialogues) >= 2
           /\ Len(scenario.scenes[k].choices) >= 1
    /\ \E k \in SceneIndexes :
           /\ Len(scenario.scenes[k].dialogues) >= 1
           /\ Len(scenario.scenes[k].choices) = 0

\* C6: in every result, of a first or a later call on the generator, a
\* DialogueTable row's NextDialogueID is empty when the row is its scene's
\* last dialogue and otherwise the ID of the row of the scene's next
\* dialogue in the same result; a row it names is of the same scene.
C6_NextDialogueLink ==
    \A r \in ResultIndexes : \A k \in SceneIndexes :
        LET table == results[r].tables.DialogueTable
            scene == scenario.scenes[k]
            n == Len(scene.dialogues)
            rows == RowsOfScene(table, scene.id)
        IN  /\ Len(rows) = n
            /\ \A i \in 1..n :
                   /\ rows[i].NextDialogueID
                          = IF i = n THEN EmptyStr ELSE rows[i + 1].ID
                   /\ \A q \in 1..Len(table) :
                          table[q].ID = rows[i].NextDialogueID =>
                              table[q].SceneID = scene.id

\* C6 witness: the result of a later call on a generator, for a graph whose
\* first scene has two or more dialogues and whose next scene has one.
C6_Witness ==
    /\ LaterCallMade
    /\ Len(scenario.scenes) >= 2
    /\ Len(scenario.scenes[1].dialogues) >= 2
    /\ Len(scenario.scenes[2].dialogues) >= 1

Unset(next_scene) == ~next_scene.some \/ next_scene.val = EmptyStr

\* The graph with scene k replaced.
WithScene(k, scene) ==
    [scenario EXCEPT !.scenes = [scenario.scenes EXCEPT ![k] = scene]]

\* C7: a SceneTable row has IsEndScene exactly when its scene has no
\* choice and next_scene is unset (None, or the empty string Python's
\* `not` takes for unset), and HasChoices exactly when the scene has a
\* choice; giving such an end scene a choice, or a scene title as
\* next_scene, makes IsEndScene false.
C7_EndSceneFlag ==
    \A r \in ResultIndexes : \A k \in SceneIndexes :
        LET scene == scenario.scenes[k]
            row == results[r].tables.SceneTable[k]
            ends == Len(scene.choices) = 0 /\ Unset(scene.next_scene)
            withChoice ==
                [scene EXCEPT !.choices = ChoicesOf(<<TitleA>>)]
            withNext(t) == [scene EXCEPT !.next_scene = Some(t)]
        IN  /\ row.ID = scene.id
            /\ row.IsEndScene = ends
            /\ row.HasChoices = (Len(scene.choices) > 0)
            /\ ends =>
                   /\ ~GenerateSceneTable(WithScene(k, withChoice))[k]
                          .IsEndScene
                   /\ \A t \in Titles :
                          ~GenerateSceneTable(WithScene(k, withNext(t)))[k]
                              .IsEndScene

\* C7 witness: a result for a graph with an end scene and a scene with
\* next_scene set and no choice.
C7_Witness ==
    /\ results # <<>>
    /\ \E k \in SceneIndexes :
           /\ Len(scenario.scenes[k].choices) = 0
           /\ ~scenario.scenes[k].next_scene.some
    /\ \E k \in SceneIndexes :
           /\ Len(scenario.scenes[k].choices) = 0
           /\ scenario.scenes[k].next_scene = Some(TitleA)

-----------------------------------------------------------------------------
(* Claims on analyze_scenario *)

Scene1 == <<"s", "c", "e", "n", "e", "_", "1">>

Scene2 == <<"s", "c", "e", "n", "e", "_", "2">>

\* The metadata of an enricher that found nothing: the object without keys,
\* and the dict the except branch returns.
EmptyMetadata == {JsonObject(None, JsonAbsent), FallbackStructure}

\* analyze_scenario has returned for the text of the example, the enricher
\* having returned empty metadata.
ExampleParsed ==
    /\ scenario_text = ExampleText
    /\ pc = "returned"
    /\ basic_structure \in EmptyMetadata

\* C3: for the text of the example and empty metadata, analyze_scenario
\* returns exactly two scenes, scene_1 titled A and scene_2 titled B, and
\* generate_all_tables on a fresh generator returns two DialogueTable rows,
\* one ChoiceTable row whose TargetSceneID is scene_2, IsEndScene false in
\* the SceneTable row of A and true in that of B.
C3_WorkedExample ==
    ExampleParsed =>
        /\ Len(scenario.scenes) = 2
        /\ scenario.scenes[1].id = Scene1
        /\ scenario.scenes[1].title = TitleA
        /\ scenario.scenes[2].id = Scene2
        /\ scenario.scenes[2].title = TitleB
        /\ \A r \in ResultIndexes :
               results[r].fresh =>
                   LET T == results[r].tables
                   IN  /\ Len(T.DialogueTable) = 2
                       /\ Len(T.ChoiceTable) = 1
                       /\ T.ChoiceTable[1].TargetSceneID = Scene2
                       /\ Len(T.SceneTable) = 2
                       /\ T.SceneTable[1].ID = Scene1
                       /\ T.SceneTable[1].IsEndScene = FALSE
                       /\ T.SceneTable[2].ID = Scene2
                       /\ T.SceneTable[2].IsEndScene = TRUE

\* C3 witness: the example is parsed with empty metadata and projected by
\* a fresh generator.
C3_Witness ==
    /\ ExampleParsed
    /\ results # <<>>
    /\ results[1].fresh

\* C8 (as claimed): whatever the enrichment call comes to (an exception, a
\* reply that is no JSON, a JSON value that is no object, an object whose
\* characters value is no array), analyze_scenario does not raise, and the
\* scenes it returns are the scenes parsed from the text.
C8_EnricherFailureTolerated ==
    /\ pc # "raised"
    /\ pc = "returned" => scenario.scenes = ExtractScenes(scenario_text)

\* text.split("\n")
RECURSIVE SplitLines(_)
SplitLines(t) ==
    LET breaks == {i \in 1..Len(t) : t[i] = "\n"}
    IN  IF breaks = {} THEN <<t>>
        ELSE <<SubSeq(t, 1, Min(breaks) - 1)>>
             \o SplitLines(SubSeq(t, Min(breaks) + 1, Len(t)))

\* A scene-header line: the opening bracket, a title of one character or
\* more, the closing bracket, with nothing but spaces around them.
IsHeaderLine(line) ==
    /\ Len(Strip(line)) >= 3
    /\ Strip(line)[1] = "LB"
    /\ Strip(line)[Len(Strip(line))] = "RB"

HeaderTitle(line) == SubSeq(Strip(line), 2, Len(Strip(line)) - 1)

\* C9: _extract_scenes returns one scene or more, with pairwise distinct
\* ids.  When the text has n >= 1 header lines it returns n scenes in header
\* order, scene i with id scene_i, the title of header i, and the content
\* parsed from the lines between header i and the next header (the end of
\* the text for the last).  With no header line it returns the one scene
\* "main" parsed from the whole text; for the empty text that scene has no
\* dialogues, no choices and an empty description.
C9_SceneSegmentation ==
    pc = "returned" =>
        LET scenes == scenario.scenes
            lines == SplitLines(scenario_text)
            headers == {h \in 1..Len(lines) : IsHeaderLine(lines[h])}
            n == Cardinality(headers)
            header(i) ==
                CHOOSE h \in headers :
                    Cardinality({g \in headers : g < h}) = i - 1
            last(i) == IF i < n THEN header(i + 1) - 1 ELSE Len(lines)
            body(i) == Strip(JoinLines(SubSeq(lines, header(i) + 1, last(i))))
        IN  /\ Len(scenes) >= 1
            /\ \A i, j \in 1..Len(scenes) :
                   i # j => scenes[i].id # scenes[j].id
            /\ n >= 1 =>
                   /\ Len(scenes) = n
                   /\ \A i \in 1..n :
                          /\ scenes[i].id
                                 = <<"s", "c", "e", "n", "e", "_">>
                                   \o Decimal(i)
                          /\ scenes[i].title = HeaderTitle(lines[header(i)])
                          /\ scenes[i]
                                 = ParseSceneContent(scenes[i].id,
                                                     scenes[i].title, body(i))
            /\ n = 0 =>
                   scenes = <<ParseSceneContent(MainSceneId, MainSceneTitle,
                                                scenario_text)>>
            /\ scenario_text = EmptyStr =>
                   /\ scenes[1].dialogues = <<>>
                   /\ scenes[1].choices = <<>>
                   /\ scenes[1].description = EmptyStr

\* C9 witness: analyze_scenario has returned for a text of two headers, the
\* second with spaces around it, and a line of dialogue between them.
C9_Witness ==
    /\ pc = "returned"
    /\ scenario_text =
           JoinLines(<< <<"LB", "A", "RB">>,
                        <<"X", "FC", "h", "i">>,
                        <<" ", "LB", "B", "RB", " ">> >>)
    /\ Len(scenario.scenes) = 2
    /\ Len(scenario.scenes[1].dialogues) = 1

\* The name and the description an entry of the enricher's list gives.
EntryName(entry) == IF entry.name.some THEN entry.name.val ELSE EmptyStr

EntryDescription(entry) ==
    IF entry.description.some THEN entry.description.val ELSE EmptyStr

\* C10 (as claimed): in the ScenarioStructure analyze_scenario returns the
\* names of the roster are non-empty and pairwise distinct, and of the
\* entries with one name the enricher supplies the roster holds the first,
\* with its description.
C10_RosterNamesUnique ==
    pc = "returned" =>
        LET roster == scenario.characters
            items == basic_structure.characters.items
            named == {e \in 1..Len(items) : items[e].kind \in {"dict", "str"}}
            first(e) ==
                CHOOSE f \in named :
                    /\ EntryName(items[f]) = EntryName(items[e])
                    /\ \A g \in named :
                           EntryName(items[g]) = EntryName(items[e]) => f <= g
        IN  /\ \A k \in 1..Len(roster) : roster[k].name # EmptyStr
            /\ \A k1, k2 \in 1..Len(roster) :
                   k1 # k2 => roster[k1].name # roster[k2].name
            /\ \A e \in named :
                   EntryName(items[e]) # EmptyStr =>
                       \E k \in 1..Len(roster) :
                           /\ roster[k].name = EntryName(items[e])
                           /\ roster[k].description
                                  = EntryDescription(items[first(e)])

\* C11 (as claimed): the title analyze_scenario returns is the enricher's
\* title when the reply is an object with a non-empty string under 'title',
\* and 'Untitled Scenario' in every other case: no such key, an empty value,
\* a failed call.
C11_TitleOrDefault ==
    pc = "returned" =>
        scenario.title =
            IF /\ ai_outcome.response = "json"
               /\ ai_outcome.value.title.some
               /\ ai_outcome.value.title.val # EmptyStr
            THEN ai_outcome.value.title.val
            ELSE UntitledScenario

-----------------------------------------------------------------------------
(* The graphs handed to both projectors, and the diagram *)

\* The scenes of these graphs: no, one or more dialogues than a label
\* shows, with any number of choices aimed at title A; a scene titled B and
\* a scene with the empty title; choices aimed at a title no scene has, at
\* nothing, and at nothing in a scene with the empty title; next_scene
\* empty, naming title A, and naming a title no scene has.
FlowShapes ==
    {Scene(EmptyStr, TitleA, EmptyStr, DialoguesOf(nd),
           ChoicesOf([j \in 1..nc |-> TitleA]), None) :
        nd \in {0, 1, LabelDialogues + 1}, nc \in 0..MaxChoices}
    \cup
    {Scene(EmptyStr, t, EmptyStr, DialoguesOf(1), <<>>, None) :
        t \in {TitleB, EmptyStr}}
    \cup
    {Scene(EmptyStr, TitleA, EmptyStr, DialoguesOf(1), ChoicesOf(<<g>>),
           None) : g \in {TitleC, EmptyStr}}
    \cup
    {Scene(EmptyStr, EmptyStr, EmptyStr, DialoguesOf(1),
           ChoicesOf(<<EmptyStr>>), None)}
    \cup
    {Scene(EmptyStr, TitleA, EmptyStr, DialoguesOf(1), <<>>, nx) :
        nx \in {Some(EmptyStr), Some(TitleA), Some(TitleC)}}

\* A graph whose node and edge ids run past EdgeIdOffset: one scene whose
\* choices, more than EdgeIdOffset / 2 of them, all lead back to it.
LargeGraph ==
    GraphOf(<<Scene(EmptyStr, TitleA, EmptyStr, <<>>,
                    ChoicesOf([j \in 1..(EdgeIdOffset \div 2 + 1) |-> TitleA]),
                    None)>>)

FlowInit ==
    /\ \/ \E n \in 0..MaxScenes :
              \E shapes \in [1..n -> FlowShapes] : scenario = GraphOf(shapes)
       \/ scenario = LargeGraph
    /\ InitGenerator
    /\ ParserIdle

\* generate_flowchart_file: generator.generate_flowchart(scenario_structure)
\* on a new FlowchartGenerator.
GenerateFlowchartFile ==
    /\ pc \in {"idle", "returned"}
    /\ diagram' = GenerateFlowchart(scenario)
    /\ UNCHANGED scenario
    /\ UNCHANGED genVars
    /\ UNCHANGED parseVars

FlowNext == GenerateFlowchartFile \/ GenerateAllTables

FlowSpec == FlowInit /\ [][FlowNext]_vars

\* The scene nodes, the choice nodes and the edges of the diagram, in
\* document order; an edge is read as its source, its target and its label.
SceneNodes == SelectSeq(diagram, LAMBDA cell : cell.style = "scene")

ChoiceNodes == SelectSeq(diagram, LAMBDA cell : cell.style = "choice")

EdgeOf(source, target, label) ==
    [source |-> source, target |-> target, value |-> label]

DiagramEdges ==
    LET cells == SelectSeq(diagram, LAMBDA cell : cell.edge)
    IN  [i \in 1..Len(cells) |->
            EdgeOf(cells[i].source, cells[i].target, cells[i].value)]

\* The choices of the graph: <<k, j>> is choice j of scene k.
ChoicePairs ==
    UNION {{<<k, j>> : j \in 1..Len(scenario.scenes[k].choices)} :
              k \in SceneIndexes}

ChoiceAt(p) == scenario.scenes[p[1]].choices[p[2]]

\* The node of choice p: choice nodes come in the order of the choices.
ChoiceNodeOf(p) ==
    ChoiceNodes[SumLen(SubSeq(scenario.scenes, 1, p[1] - 1), "choices")
                + p[2]]

\* The scenes titled name, and the first of them.
ScenesTitled(name) == {m \in SceneIndexes : scenario.scenes[m].title = name}

FirstTitled(name) == Min(ScenesTitled(name))

\* A name names a scene when some scene carries it as its title; whether
\* the empty name can name a scene (of empty title) is left open.
NamesScene(name, empty_names) ==
    /\ empty_names \/ name # EmptyStr
    /\ ScenesTitled(name) # {}

\* The edges the three rules give: one unlabelled edge scene -> choice per
\* choice, one unlabelled edge scene -> successor per scene whose next_scene
\* names a scene, one edge scene -> target labelled with the choice text per
\* choice whose target_scene names a scene.  Each edge is paired with what
\* it is drawn for, so that equal edges are counted once each.
RuleEdges(empty_names) ==
    {<<"choice", p, EdgeOf(SceneNodes[p[1]].id, ChoiceNodeOf(p).id, EmptyStr)>> :
        p \in ChoicePairs}
    \cup
    {<<"next", k,
       EdgeOf(SceneNodes[k].id,
              SceneNodes[FirstTitled(scenario.scenes[k].next_scene.val)].id,
              EmptyStr)>> :
        k \in {m \in SceneIndexes :
                  /\ scenario.scenes[m].next_scene.some
                  /\ NamesScene(scenario.scenes[m].next_scene.val,
                                empty_names)}}
    \cup
    {<<"target", p,
       EdgeOf(SceneNodes[p[1]].id,
              SceneNodes[FirstTitled(ChoiceAt(p).target_scene)].id,
              ChoiceAt(p).text)>> :
        p \in {q \in ChoicePairs :
                  NamesScene(ChoiceAt(q).target_scene, empty_names)}}

\* The diagram has exactly the edges of the rules: as many, and each edge
\* as often as the rules give it.
EdgesAreRuleEdges(empty_names) ==
    LET rule == RuleEdges(empty_names)
        drawn == DiagramEdges
    IN  /\ Len(SceneNodes) = Len(scenario.scenes)
        /\ Len(ChoiceNodes) = Cardinality(ChoicePairs)
        /\ Len(drawn) = Cardinality(rule)
        /\ \A e \in {r[3] : r \in rule} :
               Cardinality({i \in 1..Len(drawn) : drawn[i] = e})
                   = Cardinality({r \in rule : r[3] = e})

\* C12 (as claimed): the edges of the diagram are exactly one unlabelled
\* edge scene -> choice per choice, one edge scene -> successor per scene
\* whose next_scene equals some scene's title, and one edge labelled with
\* the choice text from the scene's node to the target scene's node per
\* choice whose target_scene equals some scene's title; a name that
\* matches no title gives no edge.
C12_DiagramEdges == diagram # <<>> => EdgesAreRuleEdges(TRUE)

\* C12 (amended): the same, with a successor or target edge only for a
\* next_scene or target_scene that is not empty and equals some scene's
\* title (the first scene with that title, when several carry it); an
\* empty name gives no edge even in a graph with a scene of empty title.
C12_DiagramEdgesOfNonEmptyNames ==
    diagram # <<>> => EdgesAreRuleEdges(FALSE)

\* C12 witness: the diagram of a graph with a scene of empty title whose
\* choice has no target, and a scene with a choice whose target names a
\* scene.
C12_Witness ==
    /\ diagram # <<>>
    /\ \E p \in ChoicePairs :
           /\ scenario.scenes[p[1]].title = EmptyStr
           /\ ChoiceAt(p).target_scene = EmptyStr
    /\ \E p \in ChoicePairs : ChoiceAt(p).target_scene = TitleA
    /\ \E k \in SceneIndexes : scenario.scenes[k].title = TitleA


\* The choices and the scenes whose target_scene or next_scene names a
\* title no scene carries.
UnresolvedChoices ==
    {p \in ChoicePairs : /\ ChoiceAt(p).target_scene # EmptyStr
                         /\ ScenesTitled(ChoiceAt(p).target_scene) = {}}

UnresolvedSuccessors ==
    {k \in SceneIndexes : /\ Truthy(scenario.scenes[k].next_scene)
                          /\ ScenesTitled(scenario.scenes[k].next_scene.val)
                                 = {}}

\* The references of scene k that name a scene: its choices with a target
\* that does, and itself when its next_scene does.
ResolvedReferences(k) ==
    {p \in ChoicePairs :
        p[1] = k /\ NamesScene(ChoiceAt(p).target_scene, FALSE)}
    \cup
    {m \in {k} : /\ scenario.scenes[m].next_scene.some
                 /\ NamesScene(scenario.scenes[m].next_scene.val, FALSE)}

\* The edges of the diagram that lead from the node of scene k to the node
\* of a scene.
SceneToSceneEdges(k) ==
    {i \in DOMAIN DiagramEdges :
        /\ DiagramEdges[i].source = SceneNodes[k].id
        /\ \E m \in SceneIndexes : DiagramEdges[i].target = SceneNodes[m].id}

\* The tables of every call hold the row of each unresolved reference: the
\* ChoiceTable row with an empty TargetSceneID and the name as written,
\* the SceneTable row of a scene with an unresolved next_scene, which is
\* then no end scene.
UnresolvedRowsEmitted ==
    \A r \in ResultIndexes :
        /\ \A p \in UnresolvedChoices :
               LET row == ChoiceRow(results[r].tables.ChoiceTable,
                                    scenario.scenes, p[1], p[2])
               IN  /\ row.ChoiceText = ChoiceAt(p).text
                   /\ row.TargetSceneID = EmptyStr
                   /\ row.TargetSceneName = ChoiceAt(p).target_scene
        /\ \A k \in UnresolvedSuccessors :
               /\ results[r].tables.SceneTable[k].ID = scenario.scenes[k].id
               /\ ~results[r].tables.SceneTable[k].IsEndScene

\* C13 (as claimed): a choice or a next_scene naming a title no scene
\* carries stops neither projector; the row is emitted with an empty
\* resolved id and the name as written, and the edge is emitted too,
\* recognisable as unresolved by its empty target id.
C13_UnresolvedRowAndEdgeEmitted ==
    /\ UnresolvedRowsEmitted
    /\ diagram # <<>> =>
           /\ \A p \in UnresolvedChoices :
                  \E i \in DOMAIN DiagramEdges :
                      DiagramEdges[i] = EdgeOf(SceneNodes[p[1]].id, EmptyStr,
                                               ChoiceAt(p).text)
           /\ \A k \in UnresolvedSuccessors :
                  \E i \in DOMAIN DiagramEdges :
                      DiagramEdges[i] = EdgeOf(SceneNodes[k].id, EmptyStr,
                                               EmptyStr)

\* C13 (amended): a choice or a next_scene naming a title no scene carries
\* stops neither projector.  In the tables the row is emitted: the
\* ChoiceTable row with an empty TargetSceneID and the name as written,
\* the SceneTable row with IsEndScene false.  In the diagram the choice
\* keeps its node and the edge from its scene to that node, but no edge is
\* drawn for the unresolved reference: no edge has an empty source or
\* target, and a scene's node has one edge to a scene's node per reference
\* that names a scene and no more.
C13_UnresolvedRowEmittedEdgeOmitted ==
    /\ UnresolvedRowsEmitted
    /\ diagram # <<>> =>
           /\ \A p \in UnresolvedChoices :
                  \E i \in DOMAIN DiagramEdges :
                      DiagramEdges[i] = EdgeOf(SceneNodes[p[1]].id,
                                               ChoiceNodeOf(p).id, EmptyStr)
           /\ \A i \in DOMAIN DiagramEdges :
                  /\ DiagramEdges[i].source # EmptyStr
                  /\ DiagramEdges[i].target # EmptyStr
           /\ \A k \in SceneIndexes :
                  Cardinality(SceneToSceneEdges(k))
                      = Cardinality(ResolvedReferences(k))

\* C13 witness: tables and diagram of a graph with a choice whose target
\* names no scene and a scene whose next_scene names no scene.
C13_Witness ==
    /\ results # <<>>
    /\ diagram # <<>>
    /\ UnresolvedChoices # {}
    /\ UnresolvedSuccessors # {}


-----------------------------------------------------------------------------
(* Claims on _parse_scene_content and on the roster *)

\* Lines of scene bodies: a header, a header with a colon in its title, a
\* dialogue, a choice without target, a choice with a colon in its label, a
\* line of plain text that holds a copy of the choice, and plain text.
BodyLinePool ==
    {<<"LB", "A", "RB">>,
     <<"LB", "A", ":", "B", "RB">>,
     <<"X", "FC", "h", "i">>,
     <<"1", ".", " ", "g", "o">>,
     <<"1", ".", " ", "a", ":", "b", " ", "AR", " ", "A">>,
     <<"x", " ", "1", ".", " ", "g", "o">>,
     <<"n", "o", "t", "e">>}

BodyInit ==
    /\ \E n \in 0..MaxLines :
           \E lines \in [1..n -> BodyLinePool] :
               scenario_text = JoinLines(lines)
    /\ pc = "start"
    /\ ai_outcome = NoOutcome
    /\ basic_structure = JsonOther
    /\ characters = <<>>
    /\ scenario = NoScenario
    /\ InitGenerator

BodySpec == BodyInit /\ [][ParseNext]_vars

\* The content _extract_scenes hands to _parse_scene_content for each scene
\* of a text, in order.
SceneContents(text) ==
    LET with(scene_matches) ==
            IF scene_matches = <<>> THEN <<text>>
            ELSE [i \in 1..Len(scene_matches) |->
                     Strip(SubSeq(text, scene_matches[i].end + 1,
                                  IF i < Len(scene_matches)
                                  THEN scene_matches[i + 1].start
                                  ELSE Len(text)))]
    IN  with(SceneFinditer(text, 0))

\* The positions of a content inside the spans of some of the matches.
Spans(matches) ==
    UNION {(matches[j].start + 1)..matches[j].end : j \in DOMAIN matches}

\* The characters of a content at the positions of a set, in order.
RECURSIVE Outside(_, _, _)
Outside(content, spans, p) ==
    IF p > Len(content) THEN <<>>
    ELSE (IF p \in spans THEN <<>> ELSE <<content[p]>>)
         \o Outside(content, spans, p + 1)

\* C14 (as claimed): in every scene body the spans the dialogue pattern
\* matches and the spans the choice pattern matches do not meet: no line
\* gives both a DialogueLine and a Choice, a choice line with a colon in
\* its label included.
C14_DialogueAndChoiceExclusive ==
    pc = "returned" =>
        \A i \in SceneIndexes :
            LET content == SceneContents(scenario_text)[i]
            IN  /\ Len(scenario.scenes[i].dialogues)
                       = Len(CharacterFinditer(content, 0))
                /\ Len(scenario.scenes[i].choices)
                       = Len(ChoiceFinditer(content, 0))
                /\ Spans(CharacterFinditer(content, 0))
                       \cap Spans(ChoiceFinditer(content, 0)) = {}

\* C15 (as claimed): the description of every scene is the body text
\* outside the spans of the matched dialogues and choices, its whitespace
\* runs made one space and trimmed; the text of a line that matches
\* neither pattern stays whole, also when it holds a copy of a matched
\* line.
C15_DescriptionIsTextOutsideSpans ==
    pc = "returned" =>
        \A i \in SceneIndexes :
            LET content == SceneContents(scenario_text)[i]
            IN  scenario.scenes[i].description
                    = JoinSplit(Outside(content,
                                        Spans(CharacterFinditer(content, 0))
                                        \cup Spans(ChoiceFinditer(content, 0)),
                                        1))

\* The distinct values of a sequence, in the order they first come.
RECURSIVE FirstSeen(_, _)
FirstSeen(seen, values) ==
    IF values = <<>> THEN seen
    ELSE FirstSeen(IF \E k \in DOMAIN seen : seen[k] = Head(values)
                   THEN seen ELSE Append(seen, Head(values)),
                   Tail(values))

\* The speakers of the dialogues of scenes, in document order.
RECURSIVE Speakers(_)
Speakers(scenes) ==
    IF scenes = <<>> THEN <<>>
    ELSE [j \in DOMAIN Head(scenes).dialogues |->
             Head(scenes).dialogues[j].character]
         \o Speakers(Tail(scenes))

\* C16 (as claimed): when the enricher supplies no characters the roster
\* analyze_scenario returns holds exactly the distinct speakers of the
\* DialogueLines of the returned scenes, in the order they first come: no
\* roster entry comes from a header line or from text before the first
\* header.
C16_RosterIsSpeakers ==
    (pc = "returned" /\ AiCharacters(basic_structure.characters.items) = <<>>)
        => [k \in DOMAIN scenario.characters |-> scenario.characters[k].name]
               = FirstSeen(<<>>, Speakers(scenario.scenes))


-----------------------------------------------------------------------------
(* The application: scenario_converter_app.py *)

\* sample_scenario of sample_execution_mode, a character of the scripts
\* written by its code point.
SampleScenario ==
    JoinLines(<<
        <<"LB", "u30d7", "u30ed", "u30ed", "u30fc", "u30b0", "RB">>,
        <<"u4e3b", "u4eba", "u516c", "FC", "u3053", "u3093", "u306b",
          "u3061", "u306f", "u3001", "u79c1", "u306f", "u5192", "u967a",
          "u8005", "u3067", "u3059", "u3002">>,
        <<"u30ca", "u30ec", "u30fc", "u30bf", "u30fc", "FC", "u3042",
          "u306a", "u305f", "u306f", "u53e4", "u3044", "u57ce", "u306e",
          "u524d", "u306b", "u7acb", "u3063", "u3066", "u3044", "u307e",
          "u3059", "u3002">>,
        <<>>,
        <<"1", ".", " ", "u57ce", "u306b", "u5165", "u308b", " ", "AR", " ",
          "u57ce", "u5185", "u90e8">>,
        <<"2", ".", " ", "u5f15", "u304d", "u8fd4", "u3059", " ", "AR", " ",
          "u6751">>,
        <<>>,
        <<"LB", "u57ce", "u5185", "u90e8", "RB">>,
        <<"u4e3b", "u4eba", "u516c", "FC", "u6697", "u304f", "u3066",
          "u6016", "u3044", "u3067", "u3059", "u306d", "u3002">>,
        <<"u9b54", "u6cd5", "u4f7f", "u3044", "FC", "u3088", "u3046",
          "u3053", "u305d", "u3001", "u52c7", "u6562", "u306a", "u5192",
          "u967a", "u8005", "u3088", "u3002">>,
        <<>>,
        <<"1", ".", " ", "u9b54", "u6cd5", "u4f7f", "u3044", "u3068",
          "u8a71", "u3059", " ", "AR", " ", "u4f1a", "u8a71">>,
        <<"2", ".", " ", "u9003", "u3052", "u308b", " ", "AR", " ", "u30d7",
          "u30ed", "u30ed", "u30fc", "u30b0">>,
        <<>>,
        <<"LB", "u4f1a", "u8a71", "RB">>,
        <<"u9b54", "u6cd5", "u4f7f", "u3044", "FC", "u4f55", "u304b",
          "u624b", "u4f1d", "u3048", "u308b", "u3053", "u3068", "u306f",
          "u3042", "u308a", "u307e", "u3059", "u304b", "uff1f">>,
        <<"u4e3b", "u4eba", "u516c", "FC", "u3053", "u306e", "u57ce",
          "u306b", "u3064", "u3044", "u3066", "u6559", "u3048", "u3066",
          "u304f", "u3060", "u3055", "u3044", "u3002">>,
        <<"u9b54", "u6cd5", "u4f7f", "u3044", "FC", "u3053", "u306e",
          "u57ce", "u306f", "u53e4", "u3044", "u79d8", "u5bc6", "u3092",
          "u96a0", "u3057", "u3066", "u3044", "u307e", "u3059", "u3002">>,
        <<>> >>)

\* A text of one dialogue, without a scene header.
OneDialogueText == <<"Y", ":", "b", "y", "e">>

\* A text of one scene with one dialogue.
OneSceneText == JoinLines(<<<<"LB", "A", "RB">>, <<"X", "FC", "h", "i">>>>)

\* The texts entered for conversion.
AppTexts == {ExampleText, OneDialogueText, OneSceneText}

\* What the enrichment call comes to in the application: a failed request,
\* a reply with a roster, and a reply that is a JSON array.
AppOutcomes ==
    {[response |-> "exception", value |-> JsonOther],
     [response |-> "json",
      value |-> JsonObject(Some(<<"T">>),
                    JsonArray(<<DictEntry(Some(<<"X">>), Some(Hero))>>))],
     [response |-> "json", value |-> JsonOther]}

\* Variant: one generator, made when the application starts, serves every
\* conversion.
DataTableGeneratorKept ==
    [dialogue_counter |-> dialogue_counter,
     choice_counter |-> choice_counter,
     scene_counter |-> scene_counter,
     character_counter |-> character_counter,
     used |-> used]

\* DataTableGenerator(): the generator as __init__ leaves it.
DataTableGenerator ==
    [dialogue_counter |-> 1,
     choice_counter |-> 1,
     scene_counter |-> 1,
     character_counter |-> 1,
     used |-> FALSE]

\* generate_datatable_files: generate_all_tables on a generator made for
\* this call.
GenerateDatatableFiles(structure, generator) ==
    /\ results' = Append(results,
           [fresh |-> ~generator.used,
            tables |-> AllTables(structure, generator.dialogue_counter,
                                 generator.choice_counter,
                                 generator.character_counter)])
    /\ dialogue_counter' =
           generator.dialogue_counter + SumLen(structure.scenes, "dialogues")
    /\ choice_counter' =
           generator.choice_counter + SumLen(structure.scenes, "choices")
    /\ character_counter' =
           generator.character_counter + Len(structure.characters)
    /\ scene_counter' = generator.scene_counter
    /\ used' = TRUE

\* What is done with the structure analyze_scenario returned: the
\* flowchart file, then the datatable files, as far as asked for.
ConvertStructure(structure, generate_flowchart, generate_datatable) ==
    /\ scenario' = structure
    /\ characters' = structure.characters
    /\ pc' = "returned"
    /\ diagram' = IF generate_flowchart THEN GenerateFlowchart(structure)
                  ELSE <<>>
    /\ IF generate_datatable
       THEN GenerateDatatableFiles(structure, DataTableGenerator)
       ELSE UNCHANGED genVars

\* One conversion: analyze_scenario on the text, then the files; an
\* exception that leaves analyze_scenario ends the conversion without
\* files.
Conversion(text, outcome, generate_flowchart, generate_datatable) ==
    /\ scenario_text' = text
    /\ ai_outcome' = outcome
    /\ basic_structure' = ExtractBasicStructureWithAi(outcome)
    /\ IF ExtractCharactersRaises(ExtractBasicStructureWithAi(outcome))
       THEN /\ pc' = "raised"
            /\ scenario' = NoScenario
            /\ characters' = <<>>
            /\ diagram' = <<>>
            /\ UNCHANGED genVars
       ELSE ConvertStructure(
                ScenarioStructure(
                    ExtractTitle(ExtractBasicStructureWithAi(outcome)),
                    ExtractCharacters(text,
                                      ExtractBasicStructureWithAi(outcome)),
                    ExtractScenes(text)),
                generate_flowchart, generate_datatable)

\* scenario_conversion_mode, the conversion button: at least one of the two
\* options is required.
ScenarioConversion ==
    \E text \in AppTexts, outcome \in AppOutcomes,
       generate_flowchart, generate_datatable \in BOOLEAN :
        /\ Len(results) < MaxCalls
        /\ generate_flowchart \/ generate_datatable
        /\ Conversion(text, outcome, generate_flowchart, generate_datatable)

\* sample_execution_mode, the conversion button: both files, always.
SampleExecution ==
    /\ Len(results) < MaxCalls
    /\ \E outcome \in AppOutcomes :
           Conversion(SampleScenario, outcome, TRUE, TRUE)

AppInit ==
    /\ scenario_text = <<>>
    /\ scenario = NoScenario
    /\ InitGenerator
    /\ ParserIdle

AppNext == ScenarioConversion \/ SampleExecution

AppSpec == AppInit /\ [][AppNext]_vars

First(prefix) == prefix \o <<"0", "0", "0", "1">>

\* C17: after any sequence of conversions, every table projection was
\* made by a generator that had served no call before, so that the first
\* DialogueTable row has ID DLG_0001, the first ChoiceTable row CHC_0001
\* and the first CharacterTable row CHAR_0001 in every conversion.
C17_FreshGeneratorPerConversion ==
    \A r \in ResultIndexes :
        LET T == results[r].tables
        IN  /\ results[r].fresh
            /\ T.DialogueTable # <<>> =>
                   T.DialogueTable[1].ID = First(<<"D", "L", "G", "_">>)
            /\ T.ChoiceTable # <<>> =>
                   T.ChoiceTable[1].ID = First(<<"C", "H", "C", "_">>)
            /\ T.CharacterTable # <<>> =>
                   T.CharacterTable[1].ID = First(<<"C", "H", "A", "R", "_">>)

\* C17 witness: a sample execution after a scenario conversion, both with
\* rows in the three tables.
C17_Witness ==
    /\ Len(results) >= 2
    /\ scenario_text = SampleScenario
    /\ \A r \in {1, Len(results)} :
           /\ results[r].tables.DialogueTable # <<>>
           /\ results[r].tables.ChoiceTable # <<>>
           /\ results[r].tables.CharacterTable # <<>>
    /\ results[1].tables # results[Len(results)].tables


\* C18 (as claimed): the ids of the cells of the diagram are pairwise
\* distinct, whatever the size of the graph: node ids counted from 2, the
\* ids of the scene-to-choice edges (choice node id + EdgeIdOffset), the
\* ids of the edges of the second loop (counted on from the last node id)
\* and the default cells 0 and 1 never meet.
C18_CellIdsDistinct ==
    Cardinality({diagram[i].id : i \in DOMAIN diagram}) = Len(diagram)


-----------------------------------------------------------------------------
(* One generator serving calls over changing graphs *)

\* The scenes of these graphs: no or MaxDialogues dialogues, no or
\* MaxChoices choices.
CounterShapes ==
    {Scene(EmptyStr, TitleA, EmptyStr, DialoguesOf(nd),
           ChoicesOf([j \in 1..nc |-> TitleA]), None) :
        nd \in {0, MaxDialogues}, nc \in {0, MaxChoices}}

\* The graphs: without scenes, of one scene, of two.
CounterGraphs ==
    {GraphOf(<<>>)}
    \cup {GraphOf(<<s>>) : s \in CounterShapes}
    \cup {GraphOf(<<s, t>>) : s, t \in CounterShapes}

CounterInit ==
    /\ scenario \in CounterGraphs
    /\ InitGenerator
    /\ ParserIdle

\* Another graph is at hand for the next call.
NextScenario ==
    /\ Len(results) < MaxCalls
    /\ scenario' \in CounterGraphs \ {scenario}
    /\ UNCHANGED genVars
    /\ UNCHANGED parseVars
    /\ UNCHANGED flowVars

CounterNext == GenerateAllTables \/ NextScenario

CounterSpec == CounterInit /\ [][CounterNext]_vars

\* The IDs of the rows of one table in all results so far, in the order
\* they were emitted.
RECURSIVE EmittedIds(_, _)
EmittedIds(table, r) ==
    IF r > Len(results) THEN <<>>
    ELSE [i \in DOMAIN results[r].tables[table] |->
             results[r].tables[table][i].ID]
         \o EmittedIds(table, r + 1)

\* The IDs are prefix0001, prefix0002, ... without gap or repetition, and
\* the counter is one more than the number of rows emitted.
CountsRows(counter, prefix, ids) ==
    /\ counter = Len(ids) + 1
    /\ \A n \in DOMAIN ids : ids[n] = prefix \o Format04d(n)
    /\ Cardinality({ids[n] : n \in DOMAIN ids}) = Len(ids)

\* C19: on one generator, over any sequence of calls on any graphs, each
\* of dialogue_counter, choice_counter and character_counter starts at 1
\* and is one more than the number of rows of its table emitted so far, so
\* that it never decreases; the IDs of the rows of one kind are
\* consecutive in the order the rows were emitted, within a result and
\* from one result to the next, and no two of them are equal.
C19_CountersCountRows ==
    /\ CountsRows(dialogue_counter, <<"D", "L", "G", "_">>,
                  EmittedIds("DialogueTable", 1))
    /\ CountsRows(choice_counter, <<"C", "H", "C", "_">>,
                  EmittedIds("ChoiceTable", 1))
    /\ CountsRows(character_counter, <<"C", "H", "A", "R", "_">>,
                  EmittedIds("CharacterTable", 1))

\* C19 witness: a second call on the generator, on another graph than the
\* first, both with rows in the three tables and scenes of more than one
\* dialogue.
C19_Witness ==
    /\ Len(results) >= 2
    /\ results[1].tables.SceneTable # results[2].tables.SceneTable
    /\ \A r \in {1, 2} :
           /\ Len(results[r].tables.DialogueTable) > 1
           /\ results[r].tables.ChoiceTable # <<>>
           /\ results[r].tables.CharacterTable # <<>>
    /\ Len(results[2].tables.SceneTable) = 2


-----------------------------------------------------------------------------
(* analyze_scenario followed by both projections *)

PipelineNext == ParseNext \/ GenerateFlowchartFile

PipelineSpec == BodyInit /\ [][PipelineNext]_vars

\* C20: for every text and every outcome of the enrichment call, every
\* scene analyze_scenario returns has next_scene None and every
\* DialogueLine has emotion None; so in the tables of such a graph every
\* SceneTable row has IsEndScene = not HasChoices and every DialogueTable
\* row has EmotionTag "Normal", and its diagram has no edge from a scene
\* to a successor: its edges are one per choice, to the choice's node, and
\* one more per choice whose target names a scene.
C20_ParserLeavesSuccessorAndEmotionUnset ==
    pc = "returned" =>
        /\ \A k \in SceneIndexes :
               /\ scenario.scenes[k].next_scene = None
               /\ \A j \in DOMAIN scenario.scenes[k].dialogues :
                      scenario.scenes[k].dialogues[j].emotion = None
        /\ \A r \in ResultIndexes :
               /\ \A k \in DOMAIN results[r].tables.SceneTable :
                      results[r].tables.SceneTable[k].IsEndScene
                          = ~results[r].tables.SceneTable[k].HasChoices
               /\ \A i \in DOMAIN results[r].tables.DialogueTable :
                      results[r].tables.DialogueTable[i].EmotionTag
                          = <<"N", "o", "r", "m", "a", "l">>
        /\ diagram # <<>> =>
               Len(DiagramEdges)
                   = Cardinality(ChoicePairs)
                     + Cardinality({p \in ChoicePairs :
                           NamesScene(ChoiceAt(p).target_scene, FALSE)})

\* C20 witness: tables and diagram of a parsed text with a scene that has
\* a dialogue and a choice and a scene that has neither.
C20_Witness ==
    /\ pc = "returned"
    /\ results # <<>>
    /\ diagram # <<>>
    /\ \E k \in SceneIndexes :
           /\ scenario.scenes[k].dialogues # <<>>
           /\ scenario.scenes[k].choices # <<>>
    /\ \E k \in SceneIndexes :
           /\ scenario.scenes[k].dialogues = <<>>
           /\ scenario.scenes[k].choices = <<>>

=============================================================================
